---- MODULE Spec2Model ----
(***************************************************************************)
(* A model of las-js (src/src/index.ts): the Lasjs class, which reads a    *)
(* LAS well-log document and answers queries about its sections.           *)
(*                                                                         *)
(* Text is modelled character by character.  A JavaScript string is a      *)
(* TLA+ string in the state and a sequence of one-character strings while  *)
(* it is being processed.  Every regular expression of the source is a     *)
(* matcher that returns where the leftmost-first backtracking match that   *)
(* starts at a position ends; String.prototype.split, replace and trim are *)
(* built on the matchers as ECMAScript defines them.                       *)
(*                                                                         *)
(* A JavaScript number n is modelled by the integer Scale * n, so the      *)
(* documents of the model carry at most two fractional digits.  Exponent,  *)
(* hexadecimal and Infinity literals do not occur in them.                 *)
(*                                                                         *)
(* An intermediate value that the source binds with const is passed on as  *)
(* an operator argument, so that it is written, and evaluated, once.       *)
(***************************************************************************)
EXTENDS Integers, Sequences, FiniteSets, TLC

\* ------------------------------------------------------------------------
\* Characters and strings
\* ------------------------------------------------------------------------

Digits == {"0", "1", "2", "3", "4", "5", "6", "7", "8", "9"}

UpperCase ==
    << "A", "B", "C", "D", "E", "F", "G", "H", "I", "J", "K", "L", "M",
       "N", "O", "P", "Q", "R", "S", "T", "U", "V", "W", "X", "Y", "Z" >>

LowerCase ==
    << "a", "b", "c", "d", "e", "f", "g", "h", "i", "j", "k", "l", "m",
       "n", "o", "p", "q", "r", "s", "t", "u", "v", "w", "x", "y", "z" >>

\* \w of a JavaScript regular expression
WordChars ==
    Digits \cup {"_"} \cup {UpperCase[i] : i \in 1..26} \cup {LowerCase[i] : i \in 1..26}

\* \s of a JavaScript regular expression (the members that occur in text)
WhiteSpace == {" ", "\n", "\t", "\r"}

Chars(str) == [i \in 1..Len(str) |-> SubSeq(str, i, i)]

RECURSIVE Str(_)
Str(cs) == IF cs = <<>> THEN "" ELSE Head(cs) \o Str(Tail(cs))

toLowerCase(c) ==
    IF \E i \in 1..26 : UpperCase[i] = c
    THEN LowerCase[CHOOSE i \in 1..26 : UpperCase[i] = c]
    ELSE c

\* the first position >= i of cs that holds no character of set
\* (Len(cs) + 1 when the run reaches the end), for i <= Len(cs) + 1
SkipWhile(cs, i, set) ==
    CHOOSE j \in i..(Len(cs) + 1) :
        /\ j > Len(cs) \/ cs[j] \notin set
        /\ \A k \in i..(j - 1) : cs[k] \in set

\* the last position <= i of cs that holds no character of set (0 if none)
SkipBack(cs, i, set) ==
    CHOOSE j \in 0..i :
        /\ j = 0 \/ cs[j] \notin set
        /\ \A k \in (j + 1)..i : cs[k] \in set

\* the last position in lo..hi of cs that holds character c (0 if none)
LastIndexIn(cs, lo, hi, c) ==
    IF \E j \in lo..hi : cs[j] = c
    THEN CHOOSE j \in lo..hi : cs[j] = c /\ \A k \in (j + 1)..hi : cs[k] # c
    ELSE 0

trimLeft(cs) == SubSeq(cs, SkipWhile(cs, 1, WhiteSpace), Len(cs))

trim(cs) ==
    IF \A i \in 1..Len(cs) : cs[i] \in WhiteSpace THEN <<>>
    ELSE SubSeq(cs, SkipWhile(cs, 1, WhiteSpace), SkipBack(cs, Len(cs), WhiteSpace))

RECURSIVE join(_, _)
join(parts, sep) ==
    IF Len(parts) = 0 THEN <<>>
    ELSE IF Len(parts) = 1 THEN parts[1]
    ELSE parts[1] \o sep \o join(Tail(parts), sep)

\* ------------------------------------------------------------------------
\* Regular expressions.  A matcher gives the position after the match that
\* starts at position q of cs, or 0 when there is no match at q.
\* ------------------------------------------------------------------------

\* ~X(?:\w*\s*)*\n  followed by \s* when tail is set; flag i when ci is set
Marker(letter, ci, tail) == [letter |-> letter, ci |-> ci, tail |-> tail]

\* nl is the last line feed of the run of word and space characters that
\* follows the letter: the group (?:\w*\s*)* takes the whole run and gives
\* characters back from the right until \n matches
MarkerEnd(cs, tail, nl) ==
    IF nl = 0 THEN 0
    ELSE IF tail THEN SkipWhile(cs, nl + 1, WhiteSpace)
    ELSE nl + 1

MatchMarker(re, cs, q) ==
    IF /\ cs[q] = "~"
       /\ q + 1 <= Len(cs)
       /\ \/ cs[q + 1] = re.letter
          \/ re.ci /\ toLowerCase(cs[q + 1]) = toLowerCase(re.letter)
    THEN MarkerEnd(cs, re.tail,
                   LastIndexIn(cs, q + 2,
                               SkipWhile(cs, q + 2, WordChars \cup WhiteSpace) - 1,
                               "\n"))
    ELSE 0

\* /\s+/
Spaces == "spaces"

\* /\s+|[.]/ and /[.]|\s+/
SpacesOrDot == "spacesOrDot"

\* /\s*[.]\s+/
DotSpace == "dotSpace"

\* /^\w+\s*[.]*s*/
UnitPrefix == "unitPrefix"

\* /\s{2,}\w*\s{2,}/
WideGap == "wideGap"

\* /\s{2,}|\s*:/
GapOrColon == "gapOrColon"

\* /\n\s*/
LineBreak == "lineBreak"

\* a is the end of the blanks at q, b the end of the word characters at a,
\* c the end of the blanks at b.  Blanks, a word and blanks match when both
\* runs of blanks have two characters; otherwise the word is empty and the
\* blanks at q are shared by the two \s{2,}, which takes four of them.
WideGapEnd(q, a, b, c) ==
    IF a - q >= 2 /\ c - b >= 2 THEN c
    ELSE IF a - q >= 4 THEN a
    ELSE 0

WideGapWord(cs, q, a, b) == WideGapEnd(q, a, b, SkipWhile(cs, b, WhiteSpace))

WideGapBlanks(cs, q, a) == WideGapWord(cs, q, a, SkipWhile(cs, a, WordChars))

MatchWideGap(cs, q) == WideGapBlanks(cs, q, SkipWhile(cs, q, WhiteSpace))

\* a is the end of the blanks at q
DotSpaceEnd(cs, a) ==
    IF a + 1 <= Len(cs) /\ cs[a] = "." /\ cs[a + 1] \in WhiteSpace
    THEN SkipWhile(cs, a + 1, WhiteSpace)
    ELSE 0

GapOrColonEnd(cs, q, a) ==
    IF a - q >= 2 THEN a
    ELSE IF a <= Len(cs) /\ cs[a] = ":" THEN a + 1
    ELSE 0

\* the match is anchored at the start of the text; a is the end of \w+
UnitPrefixEnd(cs, a) ==
    IF a = 1 THEN 0
    ELSE SkipWhile(cs, SkipWhile(cs, SkipWhile(cs, a, WhiteSpace), {"."}), {"s"})

MatchAt(re, cs, q) ==
    CASE re = "spaces" ->
            IF cs[q] \in WhiteSpace THEN SkipWhile(cs, q, WhiteSpace) ELSE 0
      [] re = "spacesOrDot" ->
            IF cs[q] \in WhiteSpace THEN SkipWhile(cs, q, WhiteSpace)
            ELSE IF cs[q] = "." THEN q + 1
            ELSE 0
      [] re = "dotSpace" -> DotSpaceEnd(cs, SkipWhile(cs, q, WhiteSpace))
      [] re = "unitPrefix" ->
            IF q = 1 THEN UnitPrefixEnd(cs, SkipWhile(cs, 1, WordChars)) ELSE 0
      [] re = "wideGap" -> MatchWideGap(cs, q)
      [] re = "gapOrColon" -> GapOrColonEnd(cs, q, SkipWhile(cs, q, WhiteSpace))
      [] re = "lineBreak" ->
            IF cs[q] = "\n" THEN SkipWhile(cs, q + 1, WhiteSpace) ELSE 0

\* the leftmost position >= p at which a match starts (0 if none); ends[q]
\* is where the match that starts at q ends
FirstHit(ends, p) ==
    IF \E q \in p..Len(ends) : ends[q] # 0
    THEN CHOOSE q \in p..Len(ends) :
             ends[q] # 0 /\ \A k \in p..(q - 1) : ends[k] = 0
    ELSE 0

\* String.prototype.split from position p on: the text up to the leftmost
\* match at q, then the pieces of what follows the match.  (No regular
\* expression of the source matches the empty string, so a match never
\* ends where the piece starts.)
RECURSIVE SplitFrom(_, _, _)
RECURSIVE SplitAt(_, _, _, _)
SplitAt(cs, ends, p, q) ==
    IF q = 0 THEN << SubSeq(cs, p, Len(cs)) >>
    ELSE << SubSeq(cs, p, q - 1) >> \o SplitFrom(cs, ends, ends[q])

SplitFrom(cs, ends, p) == SplitAt(cs, ends, p, FirstHit(ends, p))

\* split(re) for the regular expressions of MatchAt
split(cs, re) == SplitFrom(cs, [q \in 1..Len(cs) |-> MatchAt(re, cs, q)], 1)

\* split(c) and split(/c/) for a character c
splitChar(cs, c) ==
    SplitFrom(cs, [q \in 1..Len(cs) |-> IF cs[q] = c THEN q + 1 ELSE 0], 1)

\* split(re) for a section marker
splitMarker(cs, re) ==
    SplitFrom(cs, [q \in 1..Len(cs) |-> MatchMarker(re, cs, q)], 1)

\* String.prototype.replace(re, by) for a regular expression without flag g
ReplaceAt(cs, by, ends, q) ==
    IF q = 0 THEN cs
    ELSE SubSeq(cs, 1, q - 1) \o by \o SubSeq(cs, ends[q], Len(cs))

ReplaceIn(cs, by, ends) == ReplaceAt(cs, by, ends, FirstHit(ends, 1))

replace(cs, re, by) == ReplaceIn(cs, by, [q \in 1..Len(cs) |-> MatchAt(re, cs, q)])

\* String.prototype.replace(re, by) for a regular expression with flag g
replaceAll(cs, re, by) == join(split(cs, re), by)

\* ------------------------------------------------------------------------
\* Numbers
\* ------------------------------------------------------------------------

\* a number n is modelled by the integer Scale * n
Scale == 100

NaN == [nan |-> TRUE, v |-> 0]

Number(v) == [nan |-> FALSE, v |-> v]

DigitSeq == << "0", "1", "2", "3", "4", "5", "6", "7", "8", "9" >>

DigitVal(c) == (CHOOSE i \in 1..10 : DigitSeq[i] = c) - 1

\* the value of the digit string cs[1..n]
RECURSIVE DigitsValue(_, _)
DigitsValue(cs, n) ==
    IF n = 0 THEN 0 ELSE 10 * DigitsValue(cs, n - 1) + DigitVal(cs[n])

\* the fraction .d1d2 in Scale-ths (digits after the second are beyond the
\* precision of the model and do not occur in its documents)
FractionValue(cs) ==
    (IF Len(cs) >= 1 THEN 10 * DigitVal(cs[1]) ELSE 0)
    + (IF Len(cs) >= 2 THEN DigitVal(cs[2]) ELSE 0)

\* u[1..a-1] are digits, and u[a+1..b-1] after a point at a when dot is set
DecimalLiteral(u, a, dot, b) ==
    IF b = Len(u) + 1 /\ (a - 1) + (IF dot THEN b - a - 1 ELSE 0) >= 1
    THEN Number(Scale * DigitsValue(u, a - 1)
                + (IF dot THEN FractionValue(SubSeq(u, a + 1, b - 1)) ELSE 0))
    ELSE NaN

DecimalPoint(u, a) ==
    IF a <= Len(u) /\ u[a] = "."
    THEN DecimalLiteral(u, a, TRUE, SkipWhile(u, a + 1, Digits))
    ELSE DecimalLiteral(u, a, FALSE, a)

Unsigned(u) == DecimalPoint(u, SkipWhile(u, 1, Digits))

Negate(n) == IF n.nan THEN n ELSE Number(0 - n.v)

\* t is trimmed: the empty string is 0, a signed decimal literal is its
\* value, anything else is NaN
StringToNumber(t) ==
    IF t = <<>> THEN Number(0)
    ELSE IF t[1] = "-" THEN Negate(Unsigned(Tail(t)))
    ELSE IF t[1] = "+" THEN Unsigned(Tail(t))
    ELSE Unsigned(t)

\* +s for a string s
ToNumber(cs) == StringToNumber(trim(cs))

\* a value of the data matrix: a number, a string, or undefined (what is
\* read past the end of a short row).  A number of the matrix is never NaN.
NumVal(v) == [t |-> "number", v |-> v, s |-> ""]

StrVal(cs) == [t |-> "string", v |-> 0, s |-> Str(cs)]

Undefined == [t |-> "undefined", v |-> 0, s |-> ""]

\* x === n for a value x and a number n
StrictEquals(x, n) == x.t = "number" /\ ~n.nan /\ x.v = n.v

\* Boolean(+s) ? +s : s, n being +s: NaN and 0 are falsy
Coerce(cs, n) == IF ~n.nan /\ n.v # 0 THEN NumVal(n.v) ELSE StrVal(cs)

convertToValue(cs) == Coerce(cs, ToNumber(cs))

\* ------------------------------------------------------------------------
\* Results and errors.  An error is its cause chain, outermost first: the
\* messages of the LasErrors that wrap it, then the kind that was thrown.
\* ------------------------------------------------------------------------

Ok(v) == [ok |-> TRUE, val |-> v]

Fail(err) == [ok |-> FALSE, err |-> err]

\* new LasError(msg + cause)
LasError(msg, cause) == << msg >> \o cause

TypeError == << "TypeError" >>

PathError == << "PathError" >>

ColumnError(name) == << "ColumnError", name >>

PropertyError(p) == << "PropertyError", p >>

CsvError == << "CsvError" >>

\* try { ... } catch (error) { throw new LasError(msg + error) }
Catch(r, msg) == IF r.ok THEN r ELSE Fail(LasError(msg, r.err))

\* a promise: pending, resolved with a string or with undefined, or rejected
Pending == [st |-> "pending"]

Resolved(str) == [st |-> "resolved", defined |-> TRUE, val |-> str]

ResolvedUndefined == [st |-> "resolved", defined |-> FALSE, val |-> ""]

Rejected(err) == [st |-> "rejected", err |-> err]

\* const s = await this.blob, and the first s!.method(...) applied to it
Awaited(b) ==
    IF b.st = "rejected" THEN Fail(b.err)
    ELSE IF ~b.defined THEN Fail(TypeError)
    ELSE Ok(Chars(b.val))

\* ------------------------------------------------------------------------
\* The parsers
\* ------------------------------------------------------------------------

RECURSIVE DropComments(_)
DropComments(lines) ==
    IF lines = <<>> THEN <<>>
    ELSE (IF Len(Head(lines)) >= 1 /\ Head(lines)[1] = "#"
          THEN <<>> ELSE << Head(lines) >>)
         \o DropComments(Tail(lines))

removeComment(cs) ==
    join(DropComments([i \in 1..Len(splitChar(trim(cs), "\n")) |->
                          trimLeft(splitChar(trim(cs), "\n")[i])]),
         << "\n" >>)

\* the text of a section from the end of its marker to the next '~'
SectionBody(parts) == splitChar(parts[2], "~")[1]

\* the names with the empty ones left out: none for an empty curve section
CurveNamesNonEmpty(lines) ==
    SelectSeq([i \in 1..Len(lines) |-> Str(split(trim(lines[i]), SpacesOrDot)[1])],
              LAMBDA n : n # "")

\* header(): the lines of the curve section, the pieces of the split at the
\* marker, the awaited text
CurveNames(lines) ==
    [i \in 1..Len(lines) |-> Str(split(trim(lines[i]), SpacesOrDot)[1])]

HeaderOf(parts) ==
    IF Len(parts) < 2 THEN Fail(TypeError)
    ELSE Ok(CurveNames(splitChar(trim(removeComment(SectionBody(parts))), "\n")))

HeaderTry(s) ==
    IF ~s.ok THEN s ELSE HeaderOf(splitMarker(s.val, Marker("C", FALSE, TRUE)))

header(b) == Catch(HeaderTry(Awaited(b)), "Couldn't get the header: ")

\* columnCount(): l is the result of header()
CountOf(l) == IF ~l.ok THEN l ELSE Ok(Len(l.val))

columnCount(b) == Catch(CountOf(header(b)), "Couldn't get column count: ")

\* the coerced token stream of data() and dataStripped()
Coerced(tokens) == [i \in 1..Len(tokens) |-> convertToValue(trim(tokens[i]))]

TokensOf(parts) ==
    IF Len(parts) < 2 THEN Fail(TypeError)
    ELSE Ok(Coerced(split(trim(parts[2]), Spaces)))

dataTokens(s) ==
    IF ~s.ok THEN s ELSE TokensOf(splitMarker(s.val, Marker("A", FALSE, FALSE)))

\* slice(index, index + size + 1): a row one value too long
chunkSliceWide(arr, index, size) ==
    SubSeq(arr, index + 1, IF index + size + 1 > Len(arr) THEN Len(arr) ELSE index + size + 1)

\* Array.prototype.slice(index, index + size), index counted from 0
chunkSlice(arr, index, size) ==
    SubSeq(arr, index + 1, IF index + size > Len(arr) THEN Len(arr) ELSE index + size)

\* one line of a well, curve or parameter section (the callback of
\* sw.split('\n').map in property): the record, or the TypeError of using a
\* piece that split did not produce
ValueOf(third) ==
    IF Len(third) > 2 /\ third[Len(third)] = <<>>
    THEN third[Len(third) - 1]
    ELSE third[Len(third)]

PropertyFields(title, rest, colon) ==
    IF Len(rest) < 2 \/ Len(colon) < 2 THEN Fail(TypeError)
    ELSE Ok([name |-> Str(title),
             unit |-> Str(split(rest[2], Spaces)[1]),
             value |-> Str(ValueOf(split(colon[1], WideGap))),
             description |-> IF trim(colon[2]) # <<>> THEN Str(trim(colon[2])) ELSE "none"])

PropertyRecord(obj) ==
    PropertyFields(split(obj, SpacesOrDot)[1], split(trim(obj), UnitPrefix),
                   splitChar(obj, ":"))

propertyLine(c) == PropertyRecord(replace(c, DotSpace, Chars("   none   ")))

\* s[title] = {...}: a later record replaces an earlier one of the same
\* name in place (the names of the model's documents are not array indices)
Assign(table, rec) ==
    IF \E i \in 1..Len(table) : table[i].name = rec.name
    THEN [i \in 1..Len(table) |-> IF table[i].name = rec.name THEN rec ELSE table[i]]
    ELSE Append(table, rec)

RECURSIVE PropertyLines(_, _)
RECURSIVE PropertyNext(_, _, _)
PropertyNext(lines, table, r) ==
    IF r.ok THEN PropertyLines(Tail(lines), Assign(table, r.val)) ELSE r

PropertyLines(lines, table) ==
    IF lines = <<>> THEN Ok(table)
    ELSE PropertyNext(lines, table, propertyLine(Head(lines)))

regDict(p) ==
    CASE p = "curve" -> Marker("C", TRUE, TRUE)
      [] p = "param" -> Marker("P", TRUE, TRUE)
      [] p = "well" -> Marker("W", TRUE, TRUE)

PropertyTable(p, sw) ==
    IF Len(sw) > 0 THEN PropertyLines(splitChar(sw, "\n"), <<>>)
    ELSE Fail(PropertyError(p))

PropertyOf(p, substr) ==
    PropertyTable(p, IF Len(substr) > 1 THEN removeComment(SectionBody(substr))
                     ELSE <<>>)

PropertyTry(p, str) ==
    IF ~str.ok THEN str ELSE PropertyOf(p, splitMarker(str.val, regDict(p)))

property(p, b) == Catch(PropertyTry(p, Awaited(b)), "Couldn't get the property: ")

\* table[name], or undefined
HasKey(table, name) == \E i \in 1..Len(table) : table[i].name = name

Get(table, name) == table[CHOOSE i \in 1..Len(table) : table[i].name = name]

\* headerAndDescr(): cur is the result of property('curve')
DescrOf(cur) ==
    IF ~cur.ok THEN cur
    ELSE Ok([i \in 1..Len(cur.val) |->
                [name |-> cur.val[i].name, description |-> cur.val[i].description]])

headerAndDescr(b) == Catch(DescrOf(property("curve", b)), "Couldn't get the header: ")

\* metadata(): r1 and r2 are the pieces of the first two lines of the
\* version section; res[0] is r1[1] and may be undefined, res[1] is r2[1]
MetadataPair(r1, r2) ==
    IF Len(r2) < 2 THEN Fail(TypeError)
    ELSE Ok([defined |-> Len(r1) >= 2,
             first |-> IF Len(r1) >= 2 THEN Str(r1[2]) ELSE "",
             wrap |-> ([i \in 1..Len(r2[2]) |-> toLowerCase(r2[2][i])] = Chars("yes"))])

MetadataLines(lines) ==
    IF Len(lines) < 2 THEN Fail(TypeError)
    ELSE MetadataPair(split(lines[1], GapOrColon), split(lines[2], GapOrColon))

MetadataOf(parts) ==
    IF Len(parts) < 2 THEN Fail(TypeError)
    ELSE MetadataLines(splitChar(removeComment(SectionBody(parts)), "\n"))

MetadataTry(str) ==
    IF ~str.ok THEN str
    ELSE MetadataOf(splitMarker(trim(str.val), Marker("V", FALSE, TRUE)))

metadata(b) == Catch(MetadataTry(Awaited(b)), "Couldn't get metadata: ")

VersionOf(v) ==
    IF ~v.ok THEN v
    ELSE Ok(IF v.val.defined THEN ToNumber(Chars(v.val.first)) ELSE NaN)

version(b) == Catch(VersionOf(metadata(b)), "Couldn't get version: ")

WrapOf(v) == IF ~v.ok THEN v ELSE Ok(v.val.wrap)

wrap(b) == Catch(WrapOf(metadata(b)), "Couldn't get wrap: ")

\* other(): str is the text that is returned, parts the pieces of the split
\* at the marker
OtherStr(str) ==
    IF Len(str) <= 0 THEN Fail(LasError("No other metadata", <<>>))
    ELSE Ok(Str(str))

OtherOf(parts) ==
    OtherStr(IF Len(parts) >= 2 /\ parts[2] # <<>>
             THEN removeComment(trim(replaceAll(SectionBody(parts), LineBreak, << " " >>)))
             ELSE <<>>)

OtherTry(s) ==
    IF ~s.ok THEN s ELSE OtherOf(splitMarker(s.val, Marker("O", TRUE, TRUE)))

other(b) == Catch(OtherTry(Awaited(b)), "Couldn't get other metadata: ")

\* String(x) of a value of the matrix, as Array.prototype.join applies it
RECURSIVE DigitsOf(_)
DigitsOf(n) ==
    IF n < 10 THEN DigitSeq[n + 1] ELSE DigitsOf(n \div 10) \o DigitSeq[(n % 10) + 1]

\* mag is the magnitude in Scale-ths
MagnitudeToString(mag) ==
    DigitsOf(mag \div Scale)
    \o (IF mag % Scale = 0 THEN ""
        ELSE IF mag % 10 = 0 THEN "." \o DigitsOf((mag % Scale) \div 10)
        ELSE "." \o DigitsOf((mag % Scale) \div 10) \o DigitsOf(mag % 10))

numberToString(v) ==
    IF v < 0 THEN "-" \o MagnitudeToString(0 - v) ELSE MagnitudeToString(v)

valueToString(x) ==
    CASE x.t = "number" -> numberToString(x.v)
      [] x.t = "string" -> x.s
      [] x.t = "undefined" -> ""

RECURSIVE joinStrings(_, _)
joinStrings(parts, sep) ==
    IF Len(parts) = 0 THEN ""
    ELSE IF Len(parts) = 1 THEN parts[1]
    ELSE parts[1] \o sep \o joinStrings(Tail(parts), sep)

\* rHd + rData of toCsv and toCsvStripped
csvText(headers, data) ==
    joinStrings(headers, ",") \o "\n"
    \o joinStrings([i \in 1..Len(data) |->
                       joinStrings([j \in 1..Len(data[i]) |-> valueToString(data[i][j])], ",")],
                   "\n")

\* ------------------------------------------------------------------------
\* data() and its callers.  Each of them runs up to its call of chunk
\* (Enter), then the loop of chunk runs one iteration at a time, then the
\* caller finishes with the rows (Finish).
\* ------------------------------------------------------------------------

\* the frame of a call that has reached chunk: the locals of the callers
\* (hds of column, columnStripped, toCsv and toCsvStripped, nullValue of
\* dataStripped) and the arguments of chunk
Frame(hds, nullValue, arr, size) ==
    [hds |-> hds, nullValue |-> nullValue, arr |-> arr, size |-> size]

\* data() up to chunk: b is this.blob, hds the result of header(), tokens
\* the result of the split and map
DataFrame(b, hds, tokens) ==
    Catch(IF b.st = "rejected" THEN Fail(b.err)
          ELSE IF ~hds.ok THEN hds
          ELSE IF ~tokens.ok THEN tokens
          ELSE Ok(Frame(hds.val, "", tokens.val, Len(hds.val))),
          "Couldn't get read data: ")

\* dataStripped() up to chunk: well is the result of property('well')
StrippedFrame(b, hds, well, tokens) ==
    Catch(IF b.st = "rejected" THEN Fail(b.err)
          ELSE IF ~hds.ok THEN hds
          ELSE IF ~well.ok THEN well
          ELSE IF ~HasKey(well.val, "NULL") THEN Fail(TypeError)
          ELSE IF ~tokens.ok THEN tokens
          ELSE Ok(Frame(hds.val, Get(well.val, "NULL").value, tokens.val, Len(hds.val))),
          "Couldn't get read data: ")

\* catch (error) { throw new LasError("Couldn't create csv file") }
CsvCaller(r) == IF r.ok THEN r ELSE Fail(LasError("Couldn't create csv file", <<>>))

\* chunk(arr, size): the loop from index with the rows in overall
RECURSIVE chunkRows(_, _, _, _)
chunkRows(arr, size, index, overall) ==
    IF index < Len(arr)
    THEN chunkRows(arr, size, index + size, Append(overall, chunkSlice(arr, index, size)))
    ELSE overall

\* a caller awaits header() and then data() or dataStripped()
EnterAs(acc, hds, d, ds) ==
    CASE acc = "data" -> d
      [] acc = "dataStripped" -> ds
      [] acc = "column" -> Catch(IF ~hds.ok THEN hds ELSE d, "Error getting column: ")
      [] acc = "columnStripped" -> Catch(IF ~hds.ok THEN hds ELSE ds, "Error getting column: ")
      [] acc = "rowCount" -> Catch(d, "Couldn't get row count: ")
      [] acc = "toCsv" -> CsvCaller(IF ~hds.ok THEN hds ELSE d)
      [] acc = "toCsvStripped" -> CsvCaller(IF ~hds.ok THEN hds ELSE ds)

EnterWith(acc, b, hds, well, tokens) ==
    EnterAs(acc, hds, DataFrame(b, hds, tokens), StrippedFrame(b, hds, well, tokens))

Enter(acc, b) ==
    EnterWith(acc, b, header(b), property("well", b), dataTokens(Awaited(b)))

\* data() as a whole: e is data() up to chunk
DataRows(e) == IF ~e.ok THEN e ELSE Ok(chunkRows(e.val.arr, e.val.size, 0, <<>>))

data(b) == DataRows(Enter("data", b))

\* con.filter(f => !f.some(x => x === +nullValue)), n being +nullValue
RECURSIVE filterNull(_, _)
filterNull(con, n) ==
    IF con = <<>> THEN <<>>
    ELSE (IF \E j \in 1..Len(Head(con)) : StrictEquals(Head(con)[j], n)
          THEN <<>> ELSE << Head(con) >>)
         \o filterNull(Tail(con), n)

\* the last index of str in hds instead of the first
findLastIndex(hds, str) ==
    IF \E i \in 1..Len(hds) : hds[i] = str
    THEN CHOOSE i \in 1..Len(hds) : hds[i] = str /\ \A k \in (i + 1)..Len(hds) : hds[k] # str
    ELSE 0

\* hds.findIndex(item => item === str), counted from 1 (0 for -1)
findIndex(hds, str) ==
    IF \E i \in 1..Len(hds) : hds[i] = str
    THEN CHOOSE i \in 1..Len(hds) : hds[i] = str /\ \A k \in 1..(i - 1) : hds[k] # str
    ELSE 0

\* sB.map(c => c[index])
columnOf(rows, index) ==
    [i \in 1..Len(rows) |-> IF index <= Len(rows[i]) THEN rows[i][index] ELSE Undefined]

ColumnAt(rows, str, index) ==
    IF index = 0 THEN Fail(LasError("Error getting column: ", ColumnError(str)))
    ELSE Ok(columnOf(rows, index))

\* what the call returns once chunk has returned; rows is what data() or
\* dataStripped() returns
Finished(acc, arg, f, node, rows) ==
    CASE acc \in {"data", "dataStripped"} -> Ok(rows)
      [] acc \in {"column", "columnStripped"} -> ColumnAt(rows, arg, findIndex(f.hds, arg))
      [] acc = "rowCount" -> Ok(Len(rows))
      [] acc \in {"toCsv", "toCsvStripped"} ->
            IF node THEN Ok("undefined")
            ELSE Ok([name |-> arg \o ".csv", bits |-> csvText(f.hds, rows)])

Finish(acc, arg, f, con, node) ==
    Finished(acc, arg, f, node,
             IF acc \in {"dataStripped", "columnStripped", "toCsvStripped"}
             THEN filterNull(con, ToNumber(Chars(f.nullValue)))
             ELSE con)

\* ------------------------------------------------------------------------
\* The documents of the model
\* ------------------------------------------------------------------------

\* the most tokens in the data section of a generated document
MaxTokens == 3

\* the widest run of blanks in a generated property line
MaxGap == 4

RECURSIVE Blanks(_)
Blanks(n) == IF n = 0 THEN "" ELSE " " \o Blanks(n - 1)

VersionSection == "~V\nVERS.  2.0 : v\nWRAP.  NO : w\n"

WellSection == "~W\nNULL.  -999.25 : n\n"

CurveSection == "~C\nDEPT.M : d\nGR.API : g\n"

\* a property line MNEMONIC.[UNIT] <blanks> VALUE <blanks> : DESCRIPTION
PropertyLine(mnemonic, unit, g1, value, g2) ==
    mnemonic \o "." \o unit \o Blanks(g1) \o value \o Blanks(g2) \o ": n"

\* the lines of a data section: the tokens two to a line
RECURSIVE DataLines(_, _)
DataLines(tokens, i) ==
    IF i > Len(tokens) THEN ""
    ELSE tokens[i] \o (IF i % 2 = 1 /\ i < Len(tokens) THEN " " ELSE "\n")
         \o DataLines(tokens, i + 1)

TokenSeqs == UNION {[1..n -> {"7", "1.5"}] : n \in 0..MaxTokens}

\* documents that differ in the data section
DataDocument(ts) == WellSection \o CurveSection \o "~A\n" \o DataLines(ts, 1)

DataDocuments == {DataDocument(ts) : ts \in TokenSeqs}

\* the unit and the value of the generated NULL lines
UnitValues == { << "M", "-999.25" >>, << "", "0" >>, << "", "" >>, << "M", "" >> }

NullData == "~A\n1.5\n0\n-999.25\n0.0\n-999.250\n"

\* documents that differ in the NULL line of the well section
WellDocument(unit, g1, value, g2) ==
    "~W\n" \o PropertyLine("NULL", unit, g1, value, g2) \o "\n~C\nDEPT.M : d\n" \o NullData

WellDocuments ==
    {WellDocument(uv[1], g1, uv[2], g2) :
        uv \in UnitValues, g1 \in 1..MaxGap, g2 \in 1..MaxGap}

RowsData == "~A\n1.5 7 2.5\n8.5 9\n"

\* documents that differ in the curve section
CurveDocuments ==
    { WellSection \o c \o RowsData :
        c \in
          { "~C\nDEPT.M : d\n",
            "~C\nGR.API : g\nDEPT.M : d\nGR.API : h\n",
            "~C\n# c\nDEPT.M : d\n  GR  .API : g\n",
            "~Curve Information\n#MNEM.UNIT\nDEPT.M : d\nGR : g\n",
            "~C\n",
            "~C\nDEPT.M d\n",
            "" } }

\* documents that differ in the lay-out of the data section
LayoutDocuments ==
    { WellSection \o CurveSection \o a :
        a \in { "~A  DEPT  GR\n1.5 7\n2.5 8\n",
                "~A\n1.5 7\n~O\nNote.\n",
                "~A\n100 50\n200 999\n300 60",
                "~A",
                "" } }

\* a section marker in the other case
LowerCaseMarkers ==
    { "~v\nVERS.  2.0 : v\nWRAP.  YES : w\n" \o CurveSection \o RowsData,
      "~w\nNULL.  -999.25 : n\n" \o CurveSection \o RowsData,
      WellSection \o "~c\nDEPT.M : d\nGR.API : g\n" \o RowsData,
      WellSection \o CurveSection \o "~a\n1.5 7 2.5\n8.5 9\n",
      CurveSection \o "~p\nMUD.  GEL : m\n" \o RowsData,
      CurveSection \o "~o\nNote.\n" \o RowsData }

OtherDocuments ==
    { VersionSection \o WellSection \o CurveSection
        \o "~P\nMUD.  GEL : m\nMUD.  OIL : o\n" \o "~O\nNote.\n two\n" \o RowsData,
      "~V\nVERS 2\nWRAP.  yes : w\n" \o CurveSection \o "~O\n# c\n" \o RowsData,
      "~V\nVERS.  2.0 : v\n" \o CurveSection \o "~W\nSTRT.M  1.5 : s\n\nNULL.  0 : n\n" \o RowsData,
      "" }

Documents ==
    DataDocuments \cup WellDocuments \cup CurveDocuments \cup LayoutDocuments
    \cup LowerCaseMarkers \cup OtherDocuments

\* the browser hosts are run on fewer documents
BrowserDocuments ==
    { VersionSection \o WellSection \o CurveSection \o RowsData,
      WellSection \o CurveSection \o "~A\n7 1.5\n" }

ColumnNames == {"DEPT", "GR", "XX"}

\* ------------------------------------------------------------------------
\* The state
\* ------------------------------------------------------------------------

VARIABLES
    isNode,     \* the host: Node (TRUE) or a browser (FALSE)
    path,       \* this.path: its type and the text that reading it yields
    io,         \* the read started by initialize: "reading", "done", "failed"
    blob,       \* this.blob, the promise returned by initialize
    call,       \* the latest accessor call: accessor, argument, result, and
                \* where it is: in the loop of chunk ("chunk"), back from
                \* chunk ("rows"), returned ("done")
    frame,      \* the locals of a call that is inside chunk
    chunk,      \* the locals of the latest call of chunk: index and overall
    writes,     \* the fs.writeFile calls whose callback has not run yet
    uncaught    \* the errors thrown outside every promise

vars == << isNode, path, io, blob, call, frame, chunk, writes, uncaught >>

NoResult == [ok |-> FALSE, err |-> <<>>]

\* the promise initialize returns once its synchronous part has run: the
\* File branch has no await and no return, the other branches await the read
initialize(node, type) ==
    IF ~node /\ type = "File" THEN ResolvedUndefined ELSE Pending

\* a Node host given a file path, a browser given a URL, a browser given a File
Init ==
    /\ \E host \in { [node |-> TRUE, type |-> "string"],
                      [node |-> FALSE, type |-> "string"],
                      [node |-> FALSE, type |-> "File"] } :
         \E doc \in (IF host.node THEN Documents ELSE BrowserDocuments) :
            /\ isNode = host.node
            /\ path = [type |-> host.type, text |-> doc]
            /\ blob = initialize(host.node, host.type)
    /\ io = "reading"
    /\ call = [acc |-> "", arg |-> "", st |-> "idle", res |-> NoResult, prev |-> NoResult]
    /\ frame = Frame(<<>>, "", <<>>, 0)
    /\ chunk = [index |-> 0, overall |-> <<>>]
    /\ writes = 0
    /\ uncaught = {}

\* an uncaught exception ends a Node process
Running == ~(isNode /\ uncaught # {})

\* ------------------------------------------------------------------------
\* Acquisition
\* ------------------------------------------------------------------------

\* fsprom(this.path, 'utf8') settles: return str, or throw new PathError()
ReadFile ==
    /\ isNode /\ io = "reading"
    /\ \E ok \in BOOLEAN :
         /\ io' = IF ok THEN "done" ELSE "failed"
         /\ blob' = IF ok THEN Resolved(path.text) ELSE Rejected(PathError)
    /\ UNCHANGED << isNode, path, call, frame, chunk, writes, uncaught >>

\* fetch(this.path) and val.text() settle
Fetch ==
    /\ ~isNode /\ path.type = "string" /\ io = "reading"
    /\ \E ok \in BOOLEAN :
         /\ io' = IF ok THEN "done" ELSE "failed"
         /\ blob' = IF ok THEN Resolved(path.text) ELSE Rejected(PathError)
    /\ UNCHANGED << isNode, path, call, frame, chunk, writes, uncaught >>

\* reader.onload or reader.onerror runs: what onload returns goes to the
\* reader, what onerror throws is thrown in the event handler.  An event
\* handler runs when no call is on the stack.
FileReaderEvent ==
    /\ ~isNode /\ path.type = "File" /\ io = "reading"
    /\ call.st \in {"idle", "done"}
    /\ \E ok \in BOOLEAN :
         /\ io' = IF ok THEN "done" ELSE "failed"
         /\ uncaught' = IF ok THEN uncaught ELSE uncaught \cup {PathError}
    /\ UNCHANGED << isNode, path, blob, call, frame, chunk, writes >>

\* ------------------------------------------------------------------------
\* The accessors
\* ------------------------------------------------------------------------

\* An accessor runs once the promise it awaits first has settled.  The
\* callback of fs.writeFile reads and writes nothing an accessor uses, so
\* the model lets it run before the next accessor is called.
CanCall == Running /\ blob.st # "pending" /\ call.st \in {"idle", "done"} /\ writes = 0

\* what the same call returned when it was also the call before
Previous(acc, arg) ==
    IF call.st = "done" /\ call.acc = acc /\ call.arg = arg THEN call.res ELSE NoResult

Returned(acc, arg, res, prev) ==
    [acc |-> acc, arg |-> arg, st |-> "done", res |-> res, prev |-> prev]

Entering(acc, arg) ==
    [acc |-> acc, arg |-> arg, st |-> "chunk", res |-> NoResult, prev |-> Previous(acc, arg)]

\* an accessor that does not call chunk
Answer(acc, res) ==
    /\ CanCall
    /\ call' = Returned(acc, "", res, Previous(acc, ""))
    /\ UNCHANGED << isNode, path, io, blob, frame, chunk, writes, uncaught >>

\* overall kept from one call of chunk to the next instead of starting empty
EnteredStatic(acc, arg, e) ==
    IF e.ok
    THEN /\ call' = Entering(acc, arg)
         /\ frame' = e.val
         /\ chunk' = [index |-> 0, overall |-> chunk.overall]
    ELSE /\ call' = Returned(acc, arg, e, Previous(acc, arg))
         /\ UNCHANGED << frame, chunk >>

\* an accessor that calls data() or dataStripped(): it returns at once when
\* it fails before chunk is called, and otherwise enters the loop
Entered(acc, arg, e) ==
    IF e.ok
    THEN /\ call' = Entering(acc, arg)
         /\ frame' = e.val
         /\ chunk' = [index |-> 0, overall |-> <<>>]
    ELSE /\ call' = Returned(acc, arg, e, Previous(acc, arg))
         /\ UNCHANGED << frame, chunk >>

Begin(acc, arg) ==
    /\ CanCall
    /\ Entered(acc, arg, Enter(acc, blob))
    /\ UNCHANGED << isNode, path, io, blob, writes, uncaught >>

Header == Answer("header", header(blob))

HeaderAndDescr == Answer("headerAndDescr", headerAndDescr(blob))

ColumnCount == Answer("columnCount", columnCount(blob))

Version == Answer("version", version(blob))

Wrap == Answer("wrap", wrap(blob))

Other == Answer("other", other(blob))

WellParams == Answer("wellParams", property("well", blob))

CurveParams == Answer("curveParams", property("curve", blob))

LogParams == Answer("logParams", property("param", blob))

Data == Begin("data", "")

DataStripped == Begin("dataStripped", "")

Column == \E name \in ColumnNames : Begin("column", name)

ColumnStripped == \E name \in ColumnNames : Begin("columnStripped", name)

RowCount == Begin("rowCount", "")

\* 'file' is the default of the parameter filename
ToCsv == Begin("toCsv", "file")

ToCsvStripped == Begin("toCsvStripped", "file")

\* one iteration of the loop of chunk
ChunkStep ==
    /\ call.st = "chunk"
    /\ chunk.index < Len(frame.arr)
    /\ chunk' = [overall |-> Append(chunk.overall,
                                    chunkSlice(frame.arr, chunk.index, frame.size)),
                 index |-> chunk.index + frame.size]
    /\ UNCHANGED << isNode, path, io, blob, call, frame, writes, uncaught >>

\* the loop of chunk ends and chunk returns overall
ChunkReturn ==
    /\ call.st = "chunk"
    /\ ~(chunk.index < Len(frame.arr))
    /\ call' = [call EXCEPT !.st = "rows"]
    /\ UNCHANGED << isNode, path, io, blob, frame, chunk, writes, uncaught >>

\* the call goes on with the rows and returns; on Node toCsv and
\* toCsvStripped call fs.writeFile before they return
Return ==
    /\ call.st = "rows"
    /\ call' = Returned(call.acc, call.arg,
                        Finish(call.acc, call.arg, frame, chunk.overall, isNode),
                        call.prev)
    /\ writes' = IF isNode /\ call.acc \in {"toCsv", "toCsvStripped"}
                 THEN writes + 1 ELSE writes
    /\ frame' = Frame(<<>>, "", <<>>, 0)
    /\ UNCHANGED << isNode, path, io, blob, chunk, uncaught >>

\* the callback of fs.writeFile runs, with or without an error: it throws
\* CsvError from the callback when there is one
WriteFileCallback ==
    /\ Running /\ writes > 0
    /\ writes' = writes - 1
    /\ \E err \in BOOLEAN :
         uncaught' = IF err THEN uncaught \cup {CsvError} ELSE uncaught
    /\ UNCHANGED << isNode, path, io, blob, call, frame, chunk >>

Next ==
    \/ ReadFile \/ Fetch \/ FileReaderEvent
    \/ Header \/ HeaderAndDescr \/ ColumnCount \/ Version \/ Wrap \/ Other
    \/ WellParams \/ CurveParams \/ LogParams
    \/ Data \/ DataStripped \/ Column \/ ColumnStripped \/ RowCount
    \/ ToCsv \/ ToCsvStripped
    \/ ChunkStep \/ ChunkReturn \/ Return \/ WriteFileCallback

Spec == Init /\ [][Next]_vars

\* chunk is synchronous: once called it runs until it returns
FairSpec == Spec /\ WF_vars(ChunkStep) /\ WF_vars(ChunkReturn)

\* ------------------------------------------------------------------------
\* Properties
\* ------------------------------------------------------------------------

\* the document has been read and this.blob holds its text
Loaded == blob = Resolved(path.text)

\* the latest call was of acc and has returned
Done(acc) == call.st = "done" /\ call.acc = acc

\* the rows one after the other
RECURSIVE Flatten(_)
Flatten(rows) == IF rows = <<>> THEN <<>> ELSE Head(rows) \o Flatten(Tail(rows))

\* C1 as the specification states it: on a document with a curve and a data
\* section columnCount() is the length of header() and every row of data()
\* has exactly that length.
C1_RowLengths ==
    /\ (Loaded /\ Done("columnCount") /\ call.res.ok) =>
          (header(blob).ok /\ call.res.val = Len(header(blob).val))
    /\ (Loaded /\ Done("data") /\ call.res.ok) =>
          \A r \in 1..Len(call.res.val) : Len(call.res.val[r]) = Len(header(blob).val)

\* C1 amended: columnCount() is the length of header(); data() returns at
\* least one row, every row but the last has exactly the length of header(),
\* and the last row has at least one value and at most that many.
C1_RowLengthsAmended ==
    /\ (Loaded /\ Done("columnCount") /\ call.res.ok) =>
          (header(blob).ok /\ call.res.val = Len(header(blob).val))
    /\ (Loaded /\ Done("data") /\ call.res.ok) =>
          /\ Len(call.res.val) >= 1
          /\ \A r \in 1..(Len(call.res.val) - 1) :
                Len(call.res.val[r]) = Len(header(blob).val)
          /\ Len(call.res.val[Len(call.res.val)]) \in 1..Len(header(blob).val)

\* data() has returned several rows, the last of them short
C1_Witness ==
    /\ Loaded /\ Done("data") /\ call.res.ok
    /\ Len(call.res.val) >= 2
    /\ Len(call.res.val[Len(call.res.val)]) < Len(header(blob).val)

\* the document of the example: two curves and three lines of data
ExampleDocument == WellSection \o CurveSection \o "~A\n100 50\n200 999\n300 60"

\* C2: data() returns every token of the data section, in document order and
\* coerced, grouped by the number of curves; on the example it returns
\* [[100,50],[200,999],[300,60]] and rowCount() returns 3.
C2_AllTokens ==
    /\ \A ts \in TokenSeqs :
          (ts # <<>> /\ Loaded /\ path.text = DataDocument(ts) /\ Done("data")) =>
              /\ call.res.ok
              /\ Flatten(call.res.val) = [i \in 1..Len(ts) |-> convertToValue(Chars(ts[i]))]
    /\ (Loaded /\ path.text = ExampleDocument /\ Done("data")) =>
          call.res = Ok(<< << NumVal(100 * Scale), NumVal(50 * Scale) >>,
                           << NumVal(200 * Scale), NumVal(999 * Scale) >>,
                           << NumVal(300 * Scale), NumVal(60 * Scale) >> >>)
    /\ (Loaded /\ path.text = ExampleDocument /\ Done("rowCount")) => call.res = Ok(3)

\* the number a value of the matrix stands for
NumericValue(x) == IF x.t = "number" THEN Number(x.v) ELSE ToNumber(Chars(x.s))

\* the sentinel the well section declares, as dataStripped() reads it
Sentinel == ToNumber(Chars(Get(property("well", blob).val, "NULL").value))

\* C3: no row of dataStripped() holds a value numerically equal to the NULL
\* sentinel of the well section, whatever the sentinel (zero included) and
\* however the token is written, and dataStripped() has no more rows than
\* data().
C3_NoSentinelRows ==
    (Loaded /\ Done("dataStripped") /\ call.res.ok) =>
        /\ \A r \in 1..Len(call.res.val) : \A j \in 1..Len(call.res.val[r]) :
              ~(/\ ~Sentinel.nan
                /\ ~NumericValue(call.res.val[r][j]).nan
                /\ NumericValue(call.res.val[r][j]).v = Sentinel.v)
        /\ Len(call.res.val) <= Len(data(blob).val)

\* what column(name) is to return: the values at index of the rows
ColumnValues(rows, index) ==
    [r \in 1..Len(rows) |-> IF index <= Len(rows[r]) THEN rows[r][index] ELSE Undefined]

\* the first index of name in hds
FirstIndex(hds, name) == CHOOSE i \in 1..Len(hds) : hds[i] = name /\ \A k \in 1..(i - 1) : hds[k] # name

\* column(name) fails with the LasError that names the column
ColumnNotFound(name) == Fail(LasError("Error getting column: ", ColumnError(name)))

UpperMarkers(cs) ==
    [i \in 1..Len(cs) |->
        IF i > 1 /\ cs[i - 1] = "~" /\ \E k \in 1..26 : LowerCase[k] = cs[i]
        THEN UpperCase[CHOOSE k \in 1..26 : LowerCase[k] = cs[i]]
        ELSE cs[i]]

\* C5: the case of a marker letter changes no result: header() and version()
\* return what they return on the document with the markers in upper case,
\* and header() finds the curve section whenever curveParams() finds it.
C5_MarkersAnyCase ==
    /\ (Loaded /\ Done("header")) =>
          call.res = header(Resolved(Str(UpperMarkers(Chars(path.text)))))
    /\ (Loaded /\ Done("version")) =>
          call.res = version(Resolved(Str(UpperMarkers(Chars(path.text)))))
    /\ (Loaded /\ Done("curveParams") /\ call.res.ok) => header(blob).ok

\* C6: every failure reaches the caller as the rejection of the promise the
\* accessor returned, a LasError whose message ends with the kind of the
\* underlying error; nothing is thrown outside that promise.
C6_FailuresSurfaced ==
    /\ uncaught = {}
    /\ (call.st = "done" /\ ~call.res.ok) => Len(call.res.err) >= 2

\* C7: the promise of the constructor resolves only with the text of the
\* document and only once the read has completed, and rejects only with the
\* path error.
C7_AcquisitionHasText ==
    /\ blob.st = "resolved" => (io = "done" /\ blob = Resolved(path.text))
    /\ blob.st = "rejected" => (io = "failed" /\ blob = Rejected(PathError))

\* C8: once the acquisition has settled no step changes this.blob or
\* this.path, and an accessor called again with the same argument returns
\* what it returned the time before.
C8_Idempotent ==
    [][ /\ blob.st # "pending" => (blob' = blob /\ path' = path)
        /\ (call'.st = "done" /\ call'.prev # NoResult) => call'.res = call'.prev ]_vars

\* dataStripped() has returned rows a second time in a row
C8_Witness ==
    /\ Loaded /\ Done("dataStripped") /\ call.res.ok /\ call.prev # NoResult
    /\ Len(call.res.val) >= 1

\* C9: whatever the widths of the two runs of blanks, the value of the NULL
\* line of a generated well section is its VALUE token, up to surrounding
\* blanks, and the empty string when the slot is blank; the line never fails.
C9_ValueRegion ==
    \A uv \in UnitValues : \A g1, g2 \in 1..MaxGap :
        (Loaded /\ path.text = WellDocument(uv[1], g1, uv[2], g2) /\ Done("wellParams")) =>
            /\ call.res.ok
            /\ HasKey(call.res.val, "NULL")
            /\ Str(trim(Chars(Get(call.res.val, "NULL").value))) = uv[2]

\* the least number of rows of size values that hold n values
CeilDiv(n, size) == (n + size - 1) \div size

\* C10: header() returns at least one name when it succeeds, chunk is called
\* with size >= 1, every iteration adds size to the index, the loop ends and
\* chunk returns its rows, and when the loop ends it has emitted
\* ceil(tokenCount / size) rows whose concatenation is the token stream.
C10_Terminates ==
    /\ []((Done("header") /\ call.res.ok) => Len(call.res.val) >= 1)
    /\ [](call.st = "chunk" => frame.size >= 1)
    /\ [][(call.st = "chunk" /\ call'.st = "chunk") =>
             (chunk'.index = chunk.index + frame.size /\ chunk'.index > chunk.index)]_vars
    /\ [](call.st = "chunk" => <>(call.st = "rows"))
    /\ []((call.st = "chunk" /\ ~(chunk.index < Len(frame.arr))) =>
             /\ Len(chunk.overall) = CeilDiv(Len(frame.arr), frame.size)
             /\ Flatten(chunk.overall) = frame.arr)

\* dataStripped() has returned after several iterations of the loop
C10_Witness ==
    /\ Loaded /\ Done("dataStripped") /\ call.res.ok
    /\ Len(chunk.overall) >= 2 /\ chunk.index >= Len(Flatten(chunk.overall))
====
